---- MODULE Spec2Model ----
(***************************************************************************)
(* A model of the price-query engine of ff14-market-bot.                   *)
(*                                                                         *)
(* The repository holds several variants of the same bot, each a separate  *)
(* process.  The variable `variant` says which program a behaviour runs:   *)
(*   "tchw"   - src/unnamed/part_001: queryTchwPrice, the cache plus       *)
(*              in-flight coordinator in front of one data-center fetch;   *)
(*   "cached"  - src/index.js (second program): fetchPrice, the loop over  *)
(*               the world list behind priceCache;                         *)
(*   "plain"   - src/index.js (first program): fetchPrice without a cache; *)
(*   "part000" - src/unnamed/part_000 (second program): fetchPrice without *)
(*               the status check and without recent sales;                *)
(*   "stats"   - src/unnamed/part_001: computeStats and the summary built   *)
(*               from it, applied to a market body;                        *)
(*   "plain.find", "cached.find", "part000.find" - findItems of the three   *)
(*               programs above, applied to a keyword, a limit and a       *)
(*               search index;                                             *)
(*   "part000.search" - src/unnamed/part_000 (first program): the command   *)
(*               handler up to and including searchItems;                  *)
(*   "plain.boot", "cached.boot" - the two programs of src/index.js from    *)
(*               reading the catalog file to the first findItems call.     *)
(*                                                                         *)
(* JavaScript values: a string is a sequence of one-character strings; a   *)
(* value that may be null/undefined is a sequence of length 0 or 1.        *)
(***************************************************************************)
EXTENDS Integers, Sequences, FiniteSets, TLC

VARIABLES
    variant,    \* which program of the repository is running
    now,        \* Date.now(), in milliseconds
    cache,      \* part_001 `cache`: key -> {value, expiresAt}
    inflight,   \* part_001 `inflight`: key -> Promise (the aggregation's number)
    aggs,       \* the async bodies `p` started by queryTchwPrice, in start order
    call,       \* per caller: the position of its queryTchwPrice call
    nq,         \* number of queryTchwPrice calls issued so far
    lastRet,    \* history: what the latest queryTchwPrice call to finish returned
    priceCache, \* index.js `priceCache`: String(itemId) -> {data, expires}
    fp,         \* per caller: the position of its fetchPrice call
    fpRet,      \* history: what the latest fetchPrice call to finish returned
    arg,        \* history: the input of the latest call of a pure function
    res         \* history: what that call returned

tchwVars == <<cache, inflight, aggs, call, nq, lastRet>>

worldVars == <<priceCache, fp, fpRet>>

pureVars == <<arg, res>>

\* ---------------------------------------------------------------- bounds

MaxQueries == 3
MaxTicks == 2
NumCallers == 2

MaxFetches == 2
NumFetchers == 1

\* The world lists (WORLDS, ZH_WORLDS) hold eleven worlds; the model keeps
\* the first NumWorlds of them.
NumWorlds == 2

\* The clock advances in quanta of ten minutes.
TickMs == 10 * 60 * 1000

Callers == 1..NumCallers

Fetchers == 1..NumFetchers

\* ---------------------------------------------------------------- strings

\* U+3000, the full-width space, written in ASCII
IdeographicSpace == "_"

\* What /\s/ matches and trim() strips
IsSpace(c) == c = " " \/ c = IdeographicSpace

LowerChar(c) ==
    CASE c = "A" -> "a"
      [] c = "B" -> "b"
      [] OTHER -> c

toLowerCase(s) == [i \in 1..Len(s) |-> LowerChar(s[i])]

RECURSIVE trimStart(_)
trimStart(s) ==
    IF s # <<>> /\ IsSpace(Head(s)) THEN trimStart(Tail(s)) ELSE s

RECURSIVE trimEnd(_)
trimEnd(s) ==
    IF s # <<>> /\ IsSpace(s[Len(s)]) THEN trimEnd(SubSeq(s, 1, Len(s) - 1)) ELSE s

trim(s) == trimEnd(trimStart(s))

\* s.replace(/\s+/g, '')
stripSpaces(s) == SelectSeq(s, LAMBDA c : ~IsSpace(c))

\* ---------------------------------------------------------------- part_001

\* The data center's name, transliterated (the module is ASCII).
TCHW_DC == "LuXingNiao"

CACHE_TTL_MS == 10 * 60 * 1000

\* The item names callers type.
ItemNames == { <<"A">>, <<" ", "a">> }

\* `tchw:${itemName}`.toLowerCase()
CacheKey(itemName) == toLowerCase(<<"t", "c", "h", "w", ":">> \o itemName)

Keys == { CacheKey(n) : n \in ItemNames }


\* --- what the upstream answers

\* One search result of /api/v2/marketable: {itemId, itemName}.
R1 == [itemId |-> 5333, itemName |-> <<"a">>]
R2 == [itemId |-> 5329, itemName |-> <<"a", "b">>]

\* The `results` arrays the search endpoint may answer with.
ResultLists == { <<>>, <<R2>>, <<R2, R1>> }

Listing(price, world) == [pricePerUnit |-> price, worldName |-> world]
Sale(price, qty, ts) == [pricePerUnit |-> price, quantity |-> qty, timestamp |-> ts]

\* The bodies the data-center endpoint may answer with.
MarketJsons ==
    { [listings |-> <<>>, recentHistory |-> <<>>, lastUploadTime |-> <<>>],
      [listings |-> <<Listing(<<100>>, <<"w1">>), Listing(<<300>>, <<>>)>>,
       recentHistory |-> <<Sale(<<80>>, 2, 5), Sale(<<95>>, 1, 4)>>,
       lastUploadTime |-> <<9>>] }

\* How one upstream call ends: a success status, a non-success status, or
\* the fetch promise rejecting (network error, unparsable body).
FetchEnds == {"ok", "badstatus", "reject"}

\* --- resolveItemIdByName (the part after `await fetch(url)`)

\* const norm = (s) => (s || '').replace(/\s+/g, '').toLowerCase();
norm(s) == toLowerCase(stripSpaces(s))

\* results.find((r) => norm(r.itemName) === target), as an index; 0: none
RECURSIVE findIndex(_, _, _)
findIndex(results, target, i) ==
    IF i > Len(results) THEN 0
    ELSE IF norm(results[i].itemName) = target THEN i
    ELSE findIndex(results, target, i + 1)

\* The value resolveItemIdByName returns for a non-empty `results`.
resolveItemIdByName(itemName, results) ==
    LET q == trim(itemName)
        target == norm(q)
        found == findIndex(results, target, 1)
        best == IF found # 0 THEN results[found] ELSE results[1]
    IN  [itemId |-> best.itemId,
         itemName |-> IF best.itemName # <<>> THEN best.itemName ELSE q]

\* --- computeStats

RECURSIVE SumSeq(_)
SumSeq(s) == IF s = <<>> THEN 0 ELSE Head(s) + SumSeq(Tail(s))

\* Math.round of total / count, for total >= 0 and count > 0
RoundDiv(total, count) == (2 * total + count) \div (2 * count)

\* xs.map((x) => x.pricePerUnit).filter((n) => Number.isFinite(n))
RECURSIVE finiteUnits(_)
finiteUnits(xs) ==
    IF xs = <<>> THEN <<>>
    ELSE Head(xs).pricePerUnit \o finiteUnits(Tail(xs))

meanOf(xs) ==
    LET units == finiteUnits(xs)
    IN  IF units # <<>> THEN <<RoundDiv(SumSeq(units), Len(units))>> ELSE <<>>

\* Mutant: the lowest price and its world are read from the last listing.
computeStatsLastListing(dcMarketJson) ==
    LET listings == dcMarketJson.listings
        history == dcMarketJson.recentHistory
    IN  [lowest |-> IF listings # <<>> THEN listings[Len(listings)].pricePerUnit ELSE <<>>,
         cheapestWorld |-> IF listings # <<>> THEN listings[Len(listings)].worldName ELSE <<>>,
         avg |-> IF history # <<>> THEN meanOf(history)
                 ELSE IF listings # <<>> THEN meanOf(listings)
                 ELSE <<>>,
         lastSale |-> IF history # <<>> THEN <<history[1]>> ELSE <<>>]

computeStats(dcMarketJson) ==
    LET listings == dcMarketJson.listings
        history == dcMarketJson.recentHistory
    IN  [lowest |-> IF listings # <<>> THEN listings[1].pricePerUnit ELSE <<>>,
         cheapestWorld |-> IF listings # <<>> THEN listings[1].worldName ELSE <<>>,
         avg |-> IF history # <<>> THEN meanOf(history)
                 ELSE IF listings # <<>> THEN meanOf(listings)
                 ELSE <<>>,
         lastSale |-> IF history # <<>> THEN <<history[1]>> ELSE <<>>]

\* --- the objects queryTchwPrice's async body returns

NoSummary ==
    [ok |-> FALSE, reason |-> "", dc |-> "", itemId |-> <<>>, itemName |-> <<>>,
     lowest |-> <<>>, cheapestWorld |-> <<>>, avg |-> <<>>, lastSale |-> <<>>,
     updated |-> <<>>]

NotFound == [NoSummary EXCEPT !.reason = "not_found"]

\* new Date(t).toISOString()
toISOString(t) == [iso |-> t]

okResult(itemName, resolved, market) ==
    LET stats == computeStats(market)
    IN  [ok |-> TRUE, reason |-> "", dc |-> TCHW_DC,
         itemId |-> <<resolved.itemId>>,
         itemName |-> <<IF resolved.itemName # <<>> THEN resolved.itemName ELSE itemName>>,
         lowest |-> stats.lowest, cheapestWorld |-> stats.cheapestWorld,
         avg |-> stats.avg, lastSale |-> stats.lastSale,
         updated |-> IF market.lastUploadTime # <<>> /\ market.lastUploadTime # <<0>>
                     THEN <<toISOString(market.lastUploadTime[1])>> ELSE <<>>]

\* How a promise settles: fulfilled with a value, or rejected with an error.
Fulfilled(v) == [kind |-> "value", value |-> v, error |-> ""]
Rejected(e) == [kind |-> "throw", value |-> NoSummary, error |-> e]

\* --- cache and inflight maps

\* A cache slot; createdAt is history (the time setCache ran), not program state.
NoEntry == [present |-> FALSE, value |-> NoSummary, expiresAt |-> 0, createdAt |-> 0]

\* inflight.get(key) when the key is absent
NoPromise == 0

\* Mutant: an entry is served whatever its age.
getCacheHitStale(key) == cache[key].present

\* Mutant: an entry is no longer served at the instant it expires.
getCacheHitStrict(key) == cache[key].present /\ now < cache[key].expiresAt

\* getCache(key): is there an entry, and is it not past expiresAt
getCacheHit(key) == cache[key].present /\ ~(now > cache[key].expiresAt)

\* Mutant: getCache deletes the entry it reads, live or not.
getCacheEvictAlways(key) == [cache EXCEPT ![key] = NoEntry]

\* getCache(key): the map afterwards (an expired entry is deleted)
getCacheEvict(key) ==
    IF cache[key].present /\ now > cache[key].expiresAt
    THEN [cache EXCEPT ![key] = NoEntry]
    ELSE cache

\* setCache(key, value) applied to the map m
setCache(m, key, value) ==
    [m EXCEPT ![key] = [present |-> TRUE, value |-> value,
                        expiresAt |-> now + CACHE_TTL_MS, createdAt |-> now]]

\* Mutant: the in-flight map is never consulted.
inflightHasNever(key) == FALSE

\* inflight.has(key)
inflightHas(key) == inflight[key] # NoPromise

\* --- queryTchwPrice

NoResolved == [itemId |-> 0, itemName |-> <<>>]

\* The async body `p`: awaiting the search fetch ("resolving"), awaiting the
\* market fetch ("fetching"), or settled.  Neither fetch is given a timeout
\* or an abort signal: the body goes on only when the upstream answers.
NewAgg(key, itemName, owner) ==
    [key |-> key, itemName |-> itemName, owner |-> owner, phase |-> "resolving", resolved |-> NoResolved]

NoReturn == [kind |-> "none", value |-> NoSummary, error |-> "",
             fromCache |-> FALSE, sharedInflight |-> "absent"]

\* Mutant: the sharedInflight tag is never set.
ReturnedNoShared(outcome, fromCache, sharedInflight) ==
    IF outcome.kind = "value"
    THEN [kind |-> "value", value |-> outcome.value, error |-> "",
          fromCache |-> fromCache, sharedInflight |-> "absent"]
    ELSE [kind |-> "throw", value |-> NoSummary, error |-> outcome.error,
          fromCache |-> FALSE, sharedInflight |-> "absent"]

\* return { ...v, fromCache, sharedInflight }, or the rejection rethrown by `await`
Returned(outcome, fromCache, sharedInflight) ==
    IF outcome.kind = "value"
    THEN [kind |-> "value", value |-> outcome.value, error |-> "",
          fromCache |-> fromCache, sharedInflight |-> sharedInflight]
    ELSE [kind |-> "throw", value |-> NoSummary, error |-> outcome.error,
          fromCache |-> FALSE, sharedInflight |-> "absent"]

\* A caller's queryTchwPrice call: not running ("idle"), at `await p` ("own"),
\* at `await inflight.get(key)` ("join"), or with its resumption queued after
\* the awaited promise settled ("resume", ret: what it will return or throw).
IdleCall == [pc |-> "idle", agg |-> 0, ret |-> NoReturn]

\* What a finished call returned, by which path ("hit", "own", "join") and,
\* unless it was a cache hit, from which aggregation.
Finished(how, a, ret) == [how |-> how, agg |-> a, ret |-> ret]

\* What is left of a settled promise: its reactions already hold its outcome.
SettledAgg == [NewAgg(<<>>, <<>>, 0) EXCEPT !.phase = "settled"]

\* queryTchwPrice up to its first await (or its return on a cache hit)
queryTchwPrice(c, itemName) ==
    LET key == CacheKey(itemName)
    IN  /\ variant = "tchw"
        /\ call[c].pc = "idle"
        /\ nq < MaxQueries
        /\ nq' = nq + 1
        /\ cache' = getCacheEvict(key)
        /\ UNCHANGED <<variant, pureVars, now, worldVars>>
        /\ IF getCacheHit(key)
           THEN /\ lastRet' = Finished("hit", 0,
                                Returned(Fulfilled(cache[key].value), TRUE, "absent"))
                /\ UNCHANGED <<inflight, aggs, call>>
           ELSE IF inflightHas(key)
           THEN /\ call' = [call EXCEPT ![c] =
                    [pc |-> "join", agg |-> inflight[key], ret |-> NoReturn]]
                /\ UNCHANGED <<inflight, aggs, lastRet>>
           ELSE /\ aggs' = Append(aggs, NewAgg(key, itemName, c))
                /\ inflight' = [inflight EXCEPT ![key] = Len(aggs) + 1]
                /\ call' = [call EXCEPT ![c] =
                    [pc |-> "own", agg |-> Len(aggs) + 1, ret |-> NoReturn]]
                /\ UNCHANGED lastRet

\* Mutant: inflight.delete(key) follows `await p` without a `finally`, so it
\* is skipped when `p` rejects.
settleNoFinally(a, outcome, newCache) ==
    /\ aggs' = [aggs EXCEPT ![a] = SettledAgg]
    /\ cache' = newCache
    /\ inflight' = IF outcome.kind = "value"
                   THEN [inflight EXCEPT ![aggs[a].key] = NoPromise]
                   ELSE inflight
    /\ call' = [c \in Callers |->
            IF c = aggs[a].owner THEN IdleCall
            ELSE IF call[c].pc = "join" /\ call[c].agg = a
            THEN [call[c] EXCEPT !.pc = "resume", !.ret = Returned(outcome, TRUE, "true")]
            ELSE call[c]]
    /\ lastRet' = Finished("own", a, Returned(outcome, FALSE, "absent"))

\* Mutant: the in-flight map holds p.catch(() => ({ ok: false })), so the
\* calls that joined get a value when `p` rejects.
settleSwallows(a, outcome, newCache) ==
    /\ aggs' = [aggs EXCEPT ![a] = SettledAgg]
    /\ cache' = newCache
    /\ inflight' = [inflight EXCEPT ![aggs[a].key] = NoPromise]
    /\ call' = [c \in Callers |->
            IF c = aggs[a].owner THEN IdleCall
            ELSE IF call[c].pc = "join" /\ call[c].agg = a
            THEN [call[c] EXCEPT !.pc = "resume",
                     !.ret = Returned(IF outcome.kind = "value" THEN outcome
                                      ELSE Fulfilled(NoSummary), TRUE, "true")]
            ELSE call[c]]
    /\ lastRet' = Finished("own", a, Returned(outcome, FALSE, "absent"))

\* Mutant: `finally` runs inflight.clear() instead of inflight.delete(key).
settleClearsAll(a, outcome, newCache) ==
    /\ aggs' = [aggs EXCEPT ![a] = SettledAgg]
    /\ cache' = newCache
    /\ inflight' = [k \in Keys |-> NoPromise]
    /\ call' = [c \in Callers |->
            IF c = aggs[a].owner THEN IdleCall
            ELSE IF call[c].pc = "join" /\ call[c].agg = a
            THEN [call[c] EXCEPT !.pc = "resume", !.ret = Returned(outcome, TRUE, "true")]
            ELSE call[c]]
    /\ lastRet' = Finished("own", a, Returned(outcome, FALSE, "absent"))

\* `p` settles.  The call that created it resumes from `await p`: return
\* { ...v, fromCache: false } or rethrow, and `finally` inflight.delete(key).
\* Every call awaiting inflight.get(key) has its resumption queued with the
\* outcome: return { ...v, fromCache: true, sharedInflight: true } or rethrow.
settle(a, outcome, newCache) ==
    /\ aggs' = [aggs EXCEPT ![a] = SettledAgg]
    /\ cache' = newCache
    /\ inflight' = [inflight EXCEPT ![aggs[a].key] = NoPromise]
    /\ call' = [c \in Callers |->
            IF c = aggs[a].owner THEN IdleCall
            ELSE IF call[c].pc = "join" /\ call[c].agg = a
            THEN [call[c] EXCEPT !.pc = "resume", !.ret = Returned(outcome, TRUE, "true")]
            ELSE call[c]]
    /\ lastRet' = Finished("own", a, Returned(outcome, FALSE, "absent"))

Pending(a) == a \in 1..Len(aggs) /\ aggs[a].phase # "settled"

\* Mutant: the not_found object is passed to setCache before it is returned.
ResolveAnswersCachesNotFound(a, end, results) ==
    /\ variant = "tchw"
    /\ Pending(a) /\ aggs[a].phase = "resolving"
    /\ UNCHANGED <<variant, pureVars, now, nq, worldVars>>
    /\ IF end = "reject" THEN settle(a, Rejected("search request failed"), cache)
       ELSE IF end = "badstatus" THEN settle(a, Rejected("resolveItemId failed"), cache)
       ELSE IF results = <<>>
       THEN settle(a, Fulfilled(NotFound), setCache(cache, aggs[a].key, NotFound))
       ELSE /\ aggs' = [aggs EXCEPT ![a].phase = "fetching",
                            ![a].resolved = resolveItemIdByName(aggs[a].itemName, results)]
            /\ UNCHANGED <<cache, inflight, call, lastRet>>

\* The search endpoint answers; resolveItemIdByName and the async body go on.
ResolveAnswers(a, end, results) ==
    /\ variant = "tchw"
    /\ Pending(a) /\ aggs[a].phase = "resolving"
    /\ UNCHANGED <<variant, pureVars, now, nq, worldVars>>
    /\ IF end = "reject" THEN settle(a, Rejected("search request failed"), cache)
       ELSE IF end = "badstatus" THEN settle(a, Rejected("resolveItemId failed"), cache)
       ELSE IF results = <<>> THEN settle(a, Fulfilled(NotFound), cache)
       ELSE /\ aggs' = [aggs EXCEPT ![a].phase = "fetching",
                            ![a].resolved = resolveItemIdByName(aggs[a].itemName, results)]
            /\ UNCHANGED <<cache, inflight, call, lastRet>>

\* The data-center endpoint answers; fetchDcMarket and the async body go on.
MarketAnswers(a, end, market) ==
    /\ variant = "tchw"
    /\ Pending(a) /\ aggs[a].phase = "fetching"
    /\ UNCHANGED <<variant, pureVars, now, nq, worldVars>>
    /\ IF end = "reject" THEN settle(a, Rejected("market request failed"), cache)
       ELSE IF end = "badstatus" THEN settle(a, Rejected("market fetch failed"), cache)
       ELSE LET result == okResult(aggs[a].itemName, aggs[a].resolved, market)
            IN  settle(a, Fulfilled(result), setCache(cache, aggs[a].key, result))

\* A call that awaited inflight.get(key) resumes and returns or throws.
JoinResumes(c) ==
    /\ variant = "tchw"
    /\ call[c].pc = "resume"
    /\ call' = [call EXCEPT ![c] = IdleCall]
    /\ lastRet' = Finished("join", call[c].agg, call[c].ret)
    /\ UNCHANGED <<variant, pureVars, now, nq, cache, inflight, aggs, worldVars>>

\* ---------------------------------------------------------------- fetchPrice

\* JavaScript values that reach the arithmetic of fetchPrice.
JsNum(n) == [t |-> "number", v |-> n]
JsUndefined == [t |-> "undefined", v |-> 0]
JsNaN == [t |-> "NaN", v |-> 0]

IsNum(x) == x.t = "number"

\* ToBoolean: undefined, NaN and 0 are falsy
Truthy(x) == IsNum(x) /\ x.v # 0

AllNum(xs) == \A i \in 1..Len(xs) : IsNum(xs[i])

RECURSIVE SumJs(_)
SumJs(xs) == IF xs = <<>> THEN 0 ELSE Head(xs).v + SumJs(Tail(xs))

\* Math.min(...prices), for a non-empty array
mathMin(xs) ==
    IF AllNum(xs)
    THEN JsNum(CHOOSE m \in { xs[i].v : i \in 1..Len(xs) } :
                   \A i \in 1..Len(xs) : m <= xs[i].v)
    ELSE JsNaN

\* Math.round(prices.reduce((a, b) => a + b, 0) / prices.length)
roundedMean(xs) ==
    IF AllNum(xs) THEN JsNum(RoundDiv(SumJs(xs), Len(xs))) ELSE JsNaN

\* The items fetchPrice is called for.
ItemIds == {R1.itemId}

\* The bodies a world endpoint may answer with (?listings=1&entries=1): the
\* pricePerUnit of each listing and of each recent sale.
WorldData(listings, recentHistory) ==
    [listings |-> listings, recentHistory |-> recentHistory]

WorldDatas ==
    { WorldData(<<>>, <<>>),
      WorldData(<<JsNum(300)>>, <<>>),
      WorldData(<<JsNum(100)>>, <<JsNum(0)>>),
      WorldData(<<JsUndefined>>, <<>>) }

\* The bodies kept for the program with the cache, whose state is larger.
CachedWorldDatas ==
    { WorldData(<<>>, <<>>),
      WorldData(<<JsNum(100)>>, <<JsNum(0)>>),
      WorldData(<<JsUndefined>>, <<>>) }

\* The body that comes with each way a call ends: any of them with a success
\* status, none that is read otherwise.
BodiesOf(end) ==
    IF end # "ok" THEN { WorldData(<<>>, <<>>) }
    ELSE IF variant = "cached" THEN CachedWorldDatas
    ELSE WorldDatas

CACHE_TTL == 10 * 60 * 1000

NoPrice == [isNull |-> TRUE, min |-> JsUndefined, avg |-> JsUndefined,
            last |-> JsUndefined, cached |-> "absent"]

NoPriceEntry == [present |-> FALSE, data |-> NoPrice, expires |-> 0, createdAt |-> 0]

\* History of a fetchPrice call of the programs without a cache: the number
\* of worlds that answered it, the number of them that failed (fetch rejected
\* or non-success status), and the first listing's price of each world that
\* answered with one, in world order, and likewise the first recent sale's
\* price.
NoHeard == [asked |-> 0, failed |-> 0, listed |-> <<>>, sold |-> <<>>]

Hear(h, end, data) ==
    IF variant = "cached" THEN h ELSE
    [asked |-> h.asked + 1,
     failed |-> h.failed + (IF end = "ok" THEN 0 ELSE 1),
     listed |-> IF end = "ok" /\ data.listings # <<>>
                THEN Append(h.listed, data.listings[1]) ELSE h.listed,
     sold |-> IF end = "ok" /\ data.recentHistory # <<>>
              THEN Append(h.sold, data.recentHistory[1]) ELSE h.sold]

\* A caller's fetchPrice call: not running ("idle") or awaiting the answer of
\* world i ("loop").
IdleFetch == [pc |-> "idle", itemId |-> 0, now |-> 0, i |-> 0,
              prices |-> <<>>, lastSales |-> <<>>, heard |-> NoHeard]

\* What a finished fetchPrice call returned ("value") or threw ("throw"), for
\* which item, by which path ("hit", "loop"), and what it had heard.
FetchReturn(kind, how, id, result, heard) ==
    [kind |-> kind, how |-> how, itemId |-> id, result |-> result, heard |-> heard]

NoFetchReturn == FetchReturn("none", "none", 0, NoPrice, NoHeard)

HasCache == variant = "cached"
HasStatusCheck == variant \in {"cached", "plain"}
HasLastSales == variant \in {"cached", "plain"}

\* priceCache.has(cacheKey) with c.expires > now
priceCacheHit(id) == priceCache[id].present /\ priceCache[id].expires > now

\* fetchPrice up to its first await (or its return on a cache hit)
fetchPrice(c, id) ==
    /\ variant \in {"cached", "plain", "part000"}
    /\ fp[c].pc = "idle"
    /\ nq < MaxFetches
    /\ nq' = nq + 1
    /\ UNCHANGED <<variant, pureVars, now, cache, inflight, aggs, call, lastRet, priceCache>>
    /\ IF HasCache /\ priceCacheHit(id)
       THEN /\ fpRet' = FetchReturn("value", "hit", id,
                            [priceCache[id].data EXCEPT !.cached = "true"], NoHeard)
            /\ UNCHANGED fp
       ELSE /\ fp' = [fp EXCEPT ![c] = [IdleFetch EXCEPT !.pc = "loop", !.itemId = id,
                                                         !.now = now, !.i = 1]]
            /\ UNCHANGED fpRet

\* Mutant: the loop body has no try/catch, so a rejected fetch ends the call.
loopBodyNoCatch(st, end, data) ==
    IF end = "reject" THEN [st EXCEPT !.pc = "thrown"]
    ELSE IF end = "badstatus" /\ HasStatusCheck THEN st
    ELSE [st EXCEPT
            !.prices = IF end = "ok" /\ data.listings # <<>>
                       THEN Append(@, data.listings[1]) ELSE @,
            !.lastSales = IF end = "ok" /\ HasLastSales /\ data.recentHistory # <<>>
                          THEN Append(@, data.recentHistory[1]) ELSE @]

\* One pass of the loop body after `await fetch(...)`: a rejected fetch or an
\* unparsable body is caught, a non-success status is skipped (`continue`; in
\* part_000 its body is parsed and holds no listings), otherwise the first
\* listing's and the first recent sale's pricePerUnit are pushed.
loopBody(st, end, data) ==
    IF end = "reject" THEN st
    ELSE IF end = "badstatus" /\ HasStatusCheck THEN st
    ELSE [st EXCEPT
            !.prices = IF end = "ok" /\ data.listings # <<>>
                       THEN Append(@, data.listings[1]) ELSE @,
            !.lastSales = IF end = "ok" /\ HasLastSales /\ data.recentHistory # <<>>
                          THEN Append(@, data.recentHistory[1]) ELSE @]

\* The object fetchPrice builds after the loop, or null
priceResult(prices, lastSales) ==
    IF prices = <<>> THEN NoPrice
    ELSE [isNull |-> FALSE,
          min |-> mathMin(prices),
          avg |-> roundedMean(prices),
          last |-> IF ~HasLastSales THEN JsUndefined
                   ELSE IF lastSales # <<>> /\ Truthy(lastSales[1]) THEN lastSales[1]
                   ELSE prices[1],
          cached |-> IF HasCache THEN "false" ELSE "absent"]

\* World i answers; the loop body runs; then either the next world is asked
\* or the call finishes (and, in the cached program, stores a non-null result
\* with expires = the call's `now` + CACHE_TTL).
WorldAnswers(c, end, data) ==
    /\ variant \in {"cached", "plain", "part000"}
    /\ fp[c].pc = "loop"
    /\ UNCHANGED <<variant, pureVars, now, nq, cache, inflight, aggs, call, lastRet>>
    /\ LET st == loopBody([fp[c] EXCEPT !.heard = Hear(@, end, data)], end, data)
           result == priceResult(st.prices, st.lastSales)
       IN  IF st.pc = "thrown"
           THEN /\ fp' = [fp EXCEPT ![c] = IdleFetch]
                /\ fpRet' = FetchReturn("throw", "loop", st.itemId, NoPrice, st.heard)
                /\ UNCHANGED priceCache
           ELSE IF st.i < NumWorlds
           THEN /\ fp' = [fp EXCEPT ![c] = [st EXCEPT !.i = @ + 1]]
                /\ UNCHANGED <<priceCache, fpRet>>
           ELSE /\ fp' = [fp EXCEPT ![c] = IdleFetch]
                /\ fpRet' = FetchReturn("value", "loop", st.itemId, result, st.heard)
                /\ priceCache' =
                      IF HasCache /\ ~result.isNull
                      THEN [priceCache EXCEPT ![st.itemId] =
                              [present |-> TRUE, data |-> result,
                               expires |-> st.now + CACHE_TTL, createdAt |-> now]]
                      ELSE priceCache

\* Date.now() moves on (in the programs that read it).
Tick ==
    /\ variant \in {"tchw", "cached"}
    /\ now < MaxTicks * TickMs
    /\ now' = now + TickMs
    /\ UNCHANGED <<variant, pureVars, tchwVars, worldVars>>

\* ---------------------------------------------------------------- computeStats

\* The per-unit prices a listing or a sale may carry; <<>>: no finite number.
ListingPrices == { <<>>, <<0>>, <<100>>, <<300>> }
SalePrices == { <<>>, <<0>>, <<80>>, <<95>> }
WorldNames == { <<>>, <<"w1">>, <<"w2">> }

\* The endpoint orders listings cheapest-first and sales most-recent-first.
CheapestFirst(p, q) == p = <<>> \/ q = <<>> \/ p[1] <= q[1]

ListingLists ==
    { <<>> }
    \cup { <<Listing(p, w)>> : p \in ListingPrices, w \in WorldNames }
    \cup { <<Listing(x[1], x[2]), Listing(x[3], x[4])>> :
              x \in { y \in ListingPrices \X WorldNames \X ListingPrices \X WorldNames :
                         CheapestFirst(y[1], y[3]) } }

SaleLists ==
    { <<>> }
    \cup { <<Sale(p, 2, 5)>> : p \in SalePrices }
    \cup { <<Sale(p, 2, 5), Sale(q, 1, 4)>> : p \in SalePrices, q \in SalePrices }

\* The bodies computeStats is applied to.
StatsJsons ==
    { [listings |-> l, recentHistory |-> h, lastUploadTime |-> <<9>>] :
        l \in ListingLists, h \in SaleLists }

\* The async body of queryTchwPrice from `const stats = computeStats(market)`
\* on, for an item resolved to R1.  The computation reads and writes no
\* state, so one application per behaviour covers it.
Summarise(market) ==
    /\ variant = "stats"
    /\ arg = <<>>
    /\ arg' = <<market>>
    /\ res' = <<okResult(R1.itemName, R1, market)>>
    /\ UNCHANGED <<variant, now, tchwVars, worldVars>>

\* ---------------------------------------------------------------- findItems

\* The largest search index of the model.
MaxItems == 2

\* findItems(keyword, limit = 8)
DefaultLimit == 8

\* index.js: String(s ?? '').trim().toLowerCase().replace(/\s+/g, '')
normalize(s) == stripSpaces(toLowerCase(trim(s)))

\* part_000: String(s ?? '').toLowerCase().replace(/\s+/g, '').trim()
normalize000(s) == trim(stripSpaces(toLowerCase(s)))

FindVariants == {"plain.find", "cached.find", "part000.find"}

normalizeOf(v, s) == IF v = "part000.find" THEN normalize000(s) ELSE normalize(s)

\* One SEARCH_INDEX entry: the id, the normalized display name (`key`; `zh`
\* in the second program of index.js), the normalized English name (second
\* program only, else empty) and the display name (`raw`, `zhRaw`).
IndexEntry(v, id, finalName, en) ==
    [id |-> id, key |-> normalizeOf(v, finalName),
     en |-> IF v = "cached.find" THEN normalizeOf(v, en) ELSE <<>>,
     raw |-> finalName]

\* The display names and English names of catalog items.
FinalNames == { <<"a">>, <<"a", "b">>, <<"a", "b", "a">>, <<"b", "a">>, <<"A", " ", "b">> }
EnNames(v) == IF v = "cached.find" THEN { <<>>, <<"a", "b">> } ELSE { <<>> }

\* The search indexes: up to MaxItems items, the item at position i having id i.
SearchIndexes(v) ==
    UNION { { [i \in 1..n |-> IndexEntry(v, i, f[i][1], f[i][2])] :
                f \in [1..n -> FinalNames \X EnNames(v)] } : n \in 0..MaxItems }

Keywords ==
    { <<"a">>, <<"A", " ">>, <<"a", "b">>, <<"b">>, <<" ">>, <<IdeographicSpace, " ">> }

Limits == { 0, 1, 2, DefaultLimit }

\* String.prototype.startsWith, String.prototype.includes
startsWith(s, key) == Len(key) <= Len(s) /\ SubSeq(s, 1, Len(key)) = key
includes(s, key) ==
    \E i \in 1..(Len(s) - Len(key) + 1) : SubSeq(s, i, i + Len(key) - 1) = key

\* xs.slice(0, limit), for limit >= 0
slice(xs, limit) == SubSeq(xs, 1, IF limit < Len(xs) THEN limit ELSE Len(xs))

\* (a.zh.length || 9999)
sortWeight(e) == IF Len(e.key) # 0 THEN Len(e.key) ELSE 9999

\* Array.prototype.sort with the comparator above (the sort is stable)
RECURSIVE insertByWeight(_, _)
insertByWeight(x, xs) ==
    IF xs = <<>> THEN <<x>>
    ELSE IF sortWeight(Head(xs)) <= sortWeight(x)
    THEN <<Head(xs)>> \o insertByWeight(x, Tail(xs))
    ELSE <<x>> \o xs

RECURSIVE sortByWeight(_)
sortByWeight(xs) ==
    IF xs = <<>> THEN <<>>
    ELSE insertByWeight(xs[Len(xs)], sortByWeight(SubSeq(xs, 1, Len(xs) - 1)))

\* The loop over [...prefix, ...contains]: skip an id already seen, push, and
\* break once merged.length >= limit.
RECURSIVE mergeLoop(_, _, _, _)
mergeLoop(items, merged, seen, limit) ==
    IF items = <<>> THEN merged
    ELSE IF Head(items).id \in seen THEN mergeLoop(Tail(items), merged, seen, limit)
    ELSE IF Len(merged) + 1 >= limit THEN Append(merged, Head(items))
    ELSE mergeLoop(Tail(items), Append(merged, Head(items)),
                   seen \cup {Head(items).id}, limit)

\* Mutant: the exact tier does not return; its matches lead the merged list.
findItemsPlainFallsThrough(keyword, limit, SEARCH_INDEX) ==
    LET key == normalize(keyword)
        exact == SelectSeq(SEARCH_INDEX, LAMBDA x : x.key = key)
        prefix == SelectSeq(SEARCH_INDEX, LAMBDA x : startsWith(x.key, key))
        contains == SelectSeq(SEARCH_INDEX, LAMBDA x : includes(x.key, key))
    IN  IF key = <<>> THEN <<>>
        ELSE mergeLoop(exact \o prefix \o contains, <<>>, {}, limit)

\* Mutant: the test `if (!key) return []` is missing.
findItemsPlainNoEmptyTest(keyword, limit, SEARCH_INDEX) ==
    LET key == normalize(keyword)
        exact == SelectSeq(SEARCH_INDEX, LAMBDA x : x.key = key)
        prefix == SelectSeq(SEARCH_INDEX, LAMBDA x : startsWith(x.key, key))
        contains == SelectSeq(SEARCH_INDEX, LAMBDA x : includes(x.key, key))
    IN  IF exact # <<>> THEN slice(exact, limit)
        ELSE mergeLoop(prefix \o contains, <<>>, {}, limit)

\* findItems of index.js, first program
findItemsPlain(keyword, limit, SEARCH_INDEX) ==
    LET key == normalize(keyword)
        exact == SelectSeq(SEARCH_INDEX, LAMBDA x : x.key = key)
        prefix == SelectSeq(SEARCH_INDEX, LAMBDA x : startsWith(x.key, key))
        contains == SelectSeq(SEARCH_INDEX, LAMBDA x : includes(x.key, key))
    IN  IF key = <<>> THEN <<>>
        ELSE IF exact # <<>> THEN slice(exact, limit)
        ELSE mergeLoop(prefix \o contains, <<>>, {}, limit)

\* findItems of index.js, second program
findItemsCached(keyword, limit, SEARCH_INDEX) ==
    LET key == normalize(keyword)
        exact == SelectSeq(SEARCH_INDEX, LAMBDA i : i.key = key \/ i.en = key)
        prefix == sortByWeight(SelectSeq(SEARCH_INDEX,
                     LAMBDA i : startsWith(i.key, key) \/ startsWith(i.en, key)))
        contains == sortByWeight(SelectSeq(SEARCH_INDEX,
                     LAMBDA i : includes(i.key, key) \/ includes(i.en, key)))
    IN  IF key = <<>> THEN <<>>
        ELSE IF exact # <<>> THEN slice(exact, limit)
        ELSE mergeLoop(prefix \o contains, <<>>, {}, limit)

\* findItems of part_000
findItemsPart000(keyword, limit, SEARCH_INDEX) ==
    LET key == normalize000(keyword)
        exact == SelectSeq(SEARCH_INDEX, LAMBDA i : i.key = key)
        list == SelectSeq(SEARCH_INDEX, LAMBDA i : includes(i.key, key))
    IN  IF key = <<>> THEN <<>>
        ELSE IF exact # <<>> THEN slice(exact, limit)
        ELSE slice(list, limit)

\* A call of the running program's findItems.  The function reads only the
\* search index, which is built once, so one application per behaviour
\* covers it.
findItems(keyword, limit, SEARCH_INDEX) ==
    /\ variant \in FindVariants
    /\ arg = <<>>
    /\ arg' = <<[keyword |-> keyword, limit |-> limit, index |-> SEARCH_INDEX]>>
    /\ res' = << CASE variant = "plain.find" -> findItemsPlain(keyword, limit, SEARCH_INDEX)
                   [] variant = "cached.find" -> findItemsCached(keyword, limit, SEARCH_INDEX)
                   [] OTHER -> findItemsPart000(keyword, limit, SEARCH_INDEX) >>
    /\ UNCHANGED <<variant, now, tchwVars, worldVars>>

\* --- the price command handlers in front of fetchPrice

\* The SEARCH_INDEX the serving programs were loaded with: two items whose
\* names share a prefix.
ServingIndex ==
    LET v == CASE variant = "plain" -> "plain.find"
               [] variant = "cached" -> "cached.find"
               [] OTHER -> "part000.find"
    IN  << IndexEntry(v, R1.itemId, <<"a", "b">>, <<>>),
           IndexEntry(v, R1.itemId + 1, <<"a", "c">>, <<>>) >>

\* interaction.options.getString('item'): the name of the first item, the
\* prefix both names share, and a letter in neither.
CommandKeywords == { <<"a", "b">>, <<"a">>, <<"z">> }

\* findItems(keyword, 8) of the serving program
matchesOf(keyword) ==
    CASE variant = "plain" -> findItemsPlain(keyword, DefaultLimit, ServingIndex)
      [] variant = "cached" -> findItemsCached(keyword, DefaultLimit, ServingIndex)
      [] OTHER -> findItemsPart000(keyword, DefaultLimit, ServingIndex)

\* The handler's editReply without a price: "no match", or the list.
Reply(kind) == FetchReturn(kind, "none", 0, NoPrice, NoHeard)

\* Mutant: with several candidates the first one is queried.
PriceCommandFirstOfMany(c, keyword) ==
    /\ variant \in {"cached", "plain", "part000"}
    /\ fp[c].pc = "idle"
    /\ IF matchesOf(keyword) = <<>>
       THEN /\ fpRet' = Reply("nomatch")
            /\ nq < MaxFetches /\ nq' = nq + 1
            /\ UNCHANGED <<variant, pureVars, now, cache, inflight, aggs, call, lastRet,
                           priceCache, fp>>
       ELSE fetchPrice(c, matchesOf(keyword)[1].id)

\* A price command, from findItems to the first await of fetchPrice: no
\* candidate is answered "no match", several are answered with the list,
\* and one candidate is passed to fetchPrice.  nq counts the commands.
PriceCommand(c, keyword) ==
    /\ variant \in {"cached", "plain", "part000"}
    /\ fp[c].pc = "idle"
    /\ IF matchesOf(keyword) = <<>>
       THEN /\ fpRet' = Reply("nomatch")
            /\ nq < MaxFetches /\ nq' = nq + 1
            /\ UNCHANGED <<variant, pureVars, now, cache, inflight, aggs, call, lastRet,
                           priceCache, fp>>
       ELSE IF Len(matchesOf(keyword)) > 1
       THEN /\ fpRet' = Reply("list")
            /\ nq < MaxFetches /\ nq' = nq + 1
            /\ UNCHANGED <<variant, pureVars, now, cache, inflight, aggs, call, lastRet,
                           priceCache, fp>>
       ELSE fetchPrice(c, matchesOf(keyword)[1].id)

\* --- searchItems and its caller (part_000, first program)

\* One ITEMS entry: {id: item.ID, zh: item.Name, en: item.Name_en}; a name
\* the catalog service left out is <<>>.
ItemNamesZh == { <<>>, << <<"a", "b">> >>, << <<"a", " ", "b">> >> }
ItemNamesEn == { <<>>, << <<"A", " ", "b">> >> }

ItemLists ==
    UNION { { [i \in 1..n |-> [id |-> i, zh |-> f[i][1], en |-> f[i][2]]] :
                f \in [1..n -> ItemNamesZh \X ItemNamesEn] } : n \in 0..MaxItems }

\* searchItems(keyword)
searchItems(keyword, ITEMS) ==
    LET key == toLowerCase(keyword)
    IN  slice(SelectSeq(ITEMS, LAMBDA i :
                  \/ i.zh # <<>> /\ includes(i.zh[1], keyword)
                  \/ i.en # <<>> /\ includes(toLowerCase(i.en[1]), key)), 25)

\* The handler from getString('item').trim() to searchItems: the candidates
\* it goes on with, none when it returns at `if (!keyword) return`.
searchCommand(keyword, ITEMS) ==
    IF trim(keyword) = <<>> THEN <<>> ELSE searchItems(trim(keyword), ITEMS)

\* A price command of part_000's first program, up to its candidates.
PriceSearch(keyword, ITEMS) ==
    /\ variant = "part000.search"
    /\ arg = <<>>
    /\ arg' = <<[keyword |-> keyword, index |-> ITEMS]>>
    /\ res' = <<searchCommand(keyword, ITEMS)>>
    /\ UNCHANGED <<variant, now, tchwVars, worldVars>>

\* --- catalog load and SEARCH_INDEX construction (index.js, both programs)

BootVariants == {"plain.boot", "cached.boot"}

\* One record of a catalog file written as an array.  A field the record
\* does not have is <<>>, a field it has is <<value>>; names are strings.
CatalogRecord(id, ID, name, Name, en, zh) ==
    [id |-> id, ID |-> ID, name |-> name, Name |-> Name, en |-> en, zh |-> zh]

\* The records a file can hold for item n:
\*   {id: n}   {id: n, zh: "a"}   {id: n, zh: "", en: "b"}
\*   {ID: n, Name: "ab"}   {id: n, name: "", en: "b"}
RecordsFor(n) ==
    { CatalogRecord(<<n>>, <<>>, <<>>, <<>>, <<>>, <<>>),
      CatalogRecord(<<n>>, <<>>, <<>>, <<>>, <<>>, << <<"a">> >>),
      CatalogRecord(<<n>>, <<>>, <<>>, <<>>, << <<"b">> >>, << <<>> >>),
      CatalogRecord(<<>>, <<n>>, <<>>, << <<"a", "b">> >>, <<>>, <<>>),
      CatalogRecord(<<n>>, <<>>, << <<>> >>, <<>>, << <<"b">> >>, <<>>) }

CatalogIds == 1..MaxItems

\* The names a catalog file written as an object gives an id.
MappingNames == { <<>>, <<"a">>, <<"a", "b">> }

\* RAW = JSON.parse(fs.readFileSync(ITEMS_PATH)): the file is not JSON (or
\* is missing), or it holds an array of records with ids of their own, an
\* object from ids to names, a number, or null.
RawCatalogs ==
    { [kind |-> "unparsable"], [kind |-> "number"], [kind |-> "null"] }
    \cup { [kind |-> "array", records |-> r] :
             r \in UNION { { x \in [1..n -> UNION { RecordsFor(i) : i \in CatalogIds }] :
                                \A i, j \in 1..n :
                                    i # j => (x[i].id \o x[i].ID) # (x[j].id \o x[j].ID) } :
                           n \in 0..MaxItems } }
    \cup { [kind |-> "object", names |-> f] :
             f \in UNION { [S -> MappingNames] : S \in SUBSET CatalogIds } }

\* items_zh_manual.json: absent, or a preferred name for item 1.
ManualDicts == { <<>>, << <<"m">> >> }

\* a ?? b ?? ... over fields that are <<>> when undefined
Coalesce(fields) ==
    LET present == SelectSeq(fields, LAMBDA f : f # <<>>)
    IN  IF present = <<>> THEN <<>> ELSE present[1]

\* Number(x) of a field holding a JSON number, NaN for undefined
NumberOf(field) == IF field = <<>> THEN JsNaN ELSE JsNum(field[1])

\* Object.entries(RAW): the integer keys in ascending order
entries(names) ==
    LET keys == CHOOSE k \in [1..Cardinality(DOMAIN names) -> DOMAIN names] :
                    \A i, j \in DOMAIN k : i < j => k[i] < k[j]
    IN  [i \in DOMAIN keys |-> <<keys[i], names[keys[i]]>>]

\* `${id}` of a number below ten, of NaN and of undefined
Digits == <<"1", "2", "3", "4", "5", "6", "7", "8", "9">>
String(id) ==
    CASE id.t = "number" -> <<Digits[id.v]>>
      [] id.t = "NaN" -> <<"N", "a", "N">>
      [] OTHER -> <<"u", "n", "d", "e", "f", "i", "n", "e", "d">>

\* ITEMS_MANUAL[String(i.id)], <<>> when the dictionary has no such key
manualOf(ITEMS_MANUAL, id) ==
    IF id.t = "number" /\ id.v \in DOMAIN ITEMS_MANUAL
    THEN <<ITEMS_MANUAL[id.v]>> ELSE <<>>

\* a || b of an optional string and a string: '' and undefined are falsy
OrElse(field, other) == IF field # <<>> /\ field[1] # <<>> THEN field[1] ELSE other

\* index.js, first program: RAW to ITEMS.  JSON.parse throws on a file that
\* is not JSON and Object.entries throws on null; Object.entries of a number
\* is empty.
loadItemsPlain(RAW) ==
    CASE RAW.kind \in {"unparsable", "null"} -> [crashed |-> TRUE, ITEMS |-> <<>>]
      [] RAW.kind = "array" ->
            [crashed |-> FALSE,
             ITEMS |-> [i \in DOMAIN RAW.records |->
                          LET r == RAW.records[i]
                          IN  [id |-> NumberOf(Coalesce(<<r.id, r.ID>>)),
                               name |-> Coalesce(<<r.name, r.Name, r.en, r.zh, << <<>> >> >>)[1]]]]
      [] RAW.kind = "object" ->
            [crashed |-> FALSE,
             ITEMS |-> [i \in DOMAIN entries(RAW.names) |->
                          [id |-> JsNum(entries(RAW.names)[i][1]),
                           name |-> entries(RAW.names)[i][2]]]]
      [] OTHER -> [crashed |-> FALSE, ITEMS |-> <<>>]

\* index.js, second program: an array is taken as it is, an object is
\* mapped to {id, zh, en: ''}, anything else throws.
loadItemsCached(RAW) ==
    CASE RAW.kind = "array" ->
            [crashed |-> FALSE,
             ITEMS |-> [i \in DOMAIN RAW.records |->
                          LET r == RAW.records[i]
                          IN  [id |-> IF r.id = <<>> THEN JsUndefined ELSE JsNum(r.id[1]),
                               zh |-> r.zh, en |-> r.en]]]
      [] RAW.kind = "object" ->
            [crashed |-> FALSE,
             ITEMS |-> [i \in DOMAIN entries(RAW.names) |->
                          [id |-> JsNum(entries(RAW.names)[i][1]),
                           zh |-> <<entries(RAW.names)[i][2]>>,
                           en |-> << <<>> >>]]]
      [] OTHER -> [crashed |-> TRUE, ITEMS |-> <<>>]

\* getItemName(itemId, fallbackEn)
getItemName(ITEMS_MANUAL, itemId, fallbackEn) ==
    OrElse(manualOf(ITEMS_MANUAL, itemId),
           OrElse(<<fallbackEn>>, <<"I", "D", ":">> \o String(itemId)))

\* SEARCH_INDEX of the first program: {id, key: normalize(finalName), raw}
buildIndexPlain(ITEMS, ITEMS_MANUAL) ==
    [n \in DOMAIN ITEMS |->
        LET i == ITEMS[n]
            finalName == OrElse(manualOf(ITEMS_MANUAL, i.id),
                                OrElse(<<i.name>>, <<"I", "D", ":">> \o String(i.id)))
        IN  IndexEntry("plain.find", i.id, finalName, <<>>)]

\* SEARCH_INDEX of the second program: {id, zh, en, zhRaw, enRaw}, written
\* with the field names of IndexEntry and the English name beside them.
buildIndexCached(ITEMS, ITEMS_MANUAL) ==
    [n \in DOMAIN ITEMS |->
        LET i == ITEMS[n]
            finalZh == getItemName(ITEMS_MANUAL, i.id, OrElse(i.zh, <<>>))
        IN  [enRaw |-> OrElse(i.en, <<>>)]
            @@ IndexEntry("cached.find", i.id, finalZh, OrElse(i.en, <<>>))]

\* The name the handlers show for a candidate: m.raw in the first program,
\* item.zhRaw || item.enRaw || `ID:${item.id}` in the second.
displayName(v, m) ==
    IF v = "plain.boot" THEN m.raw
    ELSE OrElse(<<m.raw>>, OrElse(<<m.enRaw>>, <<"I", "D", ":">> \o String(m.id)))

\* Module load: ITEMS, then SEARCH_INDEX.
boot(v, RAW, ITEMS_MANUAL) ==
    LET loaded == IF v = "plain.boot" THEN loadItemsPlain(RAW) ELSE loadItemsCached(RAW)
    IN  [crashed |-> loaded.crashed,
         index |-> IF v = "plain.boot" THEN buildIndexPlain(loaded.ITEMS, ITEMS_MANUAL)
                   ELSE buildIndexCached(loaded.ITEMS, ITEMS_MANUAL),
         served |-> <<>>]

\* findItems of the booted program
resolve(v, keyword, limit, SEARCH_INDEX) ==
    IF v = "plain.boot" THEN findItemsPlain(keyword, limit, SEARCH_INDEX)
    ELSE findItemsCached(keyword, limit, SEARCH_INDEX)

\* The process starts: the module body runs once.
Boot(RAW, ITEMS_MANUAL) ==
    /\ variant \in BootVariants
    /\ arg = <<>>
    /\ arg' = <<[RAW |-> RAW, ITEMS_MANUAL |-> ITEMS_MANUAL]>>
    /\ res' = <<boot(variant, RAW, ITEMS_MANUAL)>>
    /\ UNCHANGED <<variant, now, tchwVars, worldVars>>

\* A price command reaches the handler of a process that started, which
\* calls findItems(keyword, 8).
Serve(keyword) ==
    /\ variant \in BootVariants
    /\ arg # <<>>
    /\ ~res[1].crashed
    /\ res[1].served = <<>>
    /\ res' = <<[res[1] EXCEPT
                   !.served = <<resolve(variant, keyword, DefaultLimit, res[1].index)>>]>>
    /\ UNCHANGED <<variant, now, tchwVars, worldVars, arg>>

\* ---------------------------------------------------------------- system

vars == <<variant, now, cache, inflight, aggs, call, nq, lastRet, priceCache, fp, fpRet,
          arg, res>>

Variants ==
    {"tchw", "cached", "plain", "part000", "stats", "part000.search"}
    \cup FindVariants \cup BootVariants

Init ==
    /\ variant \in Variants
    /\ now = 0
    /\ cache = [k \in Keys |-> NoEntry]
    /\ inflight = [k \in Keys |-> NoPromise]
    /\ aggs = <<>>
    /\ call = [c \in Callers |-> IdleCall]
    /\ nq = 0
    /\ lastRet = Finished("none", 0, NoReturn)
    /\ priceCache = [id \in ItemIds |-> NoPriceEntry]
    /\ fp = [c \in Fetchers |-> IdleFetch]
    /\ fpRet = NoFetchReturn
    /\ arg = <<>>
    /\ res = <<>>

Next ==
    \/ \E c \in Callers, n \in ItemNames : queryTchwPrice(c, n)
    \/ \E a \in 1..MaxQueries, e \in FetchEnds, r \in ResultLists : ResolveAnswers(a, e, r)
    \/ \E a \in 1..MaxQueries, e \in FetchEnds, m \in MarketJsons : MarketAnswers(a, e, m)
    \/ \E c \in Callers : JoinResumes(c)
    \/ \E c \in Fetchers, k \in CommandKeywords : PriceCommand(c, k)
    \/ \E c \in Fetchers, e \in FetchEnds :
          \E d \in BodiesOf(e) : WorldAnswers(c, e, d)
    \/ Tick
    \/ /\ variant = "stats" /\ arg = <<>>
       /\ \E m \in StatsJsons : Summarise(m)
    \/ /\ variant \in BootVariants /\ arg = <<>>
       /\ \E r \in RawCatalogs, m \in ManualDicts : Boot(r, m)
    \/ \E k \in Keywords : Serve(k)
    \/ /\ variant = "part000.search" /\ arg = <<>>
       /\ \E k \in Keywords, x \in ItemLists : PriceSearch(k, x)
    \/ /\ variant \in FindVariants /\ arg = <<>>
       /\ \E k \in Keywords, l \in Limits, x \in SearchIndexes(variant) : findItems(k, l, x)

Spec == Init /\ [][Next]_vars

\* Under FairSpec every queued resumption runs and the clock keeps moving; the
\* upstream is not obliged to answer.
FairSpec ==
    /\ Spec
    /\ \A c \in Callers : WF_vars(JoinResumes(c))
    /\ WF_vars(Tick)

\* ---------------------------------------------------------------- claims

\* An entry whose age does not exceed the TTL.
LiveEntry(k) == cache[k].present /\ now - cache[k].createdAt <= CACHE_TTL_MS

\* An entry whose age exceeds the TTL.
ExpiredEntry(k) == cache[k].present /\ now - cache[k].createdAt > CACHE_TTL_MS

PendingFor(k) == { a \in 1..Len(aggs) : Pending(a) /\ aggs[a].key = k }

Waiting(c) == call[c].pc \in {"own", "join"}

SameOutcome(r1, r2) ==
    r1.kind = r2.kind /\ r1.value = r2.value /\ r1.error = r2.error

\* C1: single-flight.  At most one aggregation is pending per key, every call
\* waiting on a key waits on that one aggregation, and the calls resumed from
\* one aggregation get the same summary (or error) as its starter got.
C1_SingleFlight ==
    /\ \A k \in Keys : Cardinality(PendingFor(k)) <= 1
    /\ \A c \in Callers : Waiting(c) =>
          /\ Pending(call[c].agg)
          /\ inflight[aggs[call[c].agg].key] = call[c].agg
    /\ \A c1, c2 \in Callers :
          (Waiting(c1) /\ Waiting(c2) /\ aggs[call[c1].agg].key = aggs[call[c2].agg].key)
              => call[c1].agg = call[c2].agg
    /\ \A c \in Callers :
          (call[c].pc = "resume" /\ lastRet.how \in {"own", "join"}
              /\ lastRet.agg = call[c].agg)
              => SameOutcome(call[c].ret, lastRet.ret)
    /\ \A c1, c2 \in Callers :
          (call[c1].pc = "resume" /\ call[c2].pc = "resume" /\ call[c1].agg = call[c2].agg)
              => SameOutcome(call[c1].ret, call[c2].ret)

\* C1 witness: the starter of an aggregation got a summary and a call that
\* joined the same aggregation is about to get it too.
C1_Witness ==
    \E c \in Callers :
        /\ call[c].pc = "resume" /\ call[c].ret.kind = "value" /\ call[c].ret.value.ok
        /\ lastRet.how = "own" /\ lastRet.agg = call[c].agg

\* C2: in-flight cleanup.  Every in-flight entry names a pending aggregation
\* of its key, and when no call is at `await p` the in-flight map is empty.
C2_InflightCleanup ==
    /\ \A k \in Keys : inflight[k] # NoPromise =>
          (Pending(inflight[k]) /\ aggs[inflight[k]].key = k)
    /\ (\A c \in Callers : call[c].pc # "own") => (\A k \in Keys : inflight[k] = NoPromise)

\* C2 witness: an aggregation threw, and nothing is left in flight.
C2_Witness ==
    /\ lastRet.how = "own" /\ lastRet.ret.kind = "throw"
    /\ \A k \in Keys : inflight[k] = NoPromise
    /\ \A c \in Callers : call[c].pc = "idle"

\* A queryTchwPrice call answered from the cache changes no call's position.
IsHit(c, n) == queryTchwPrice(c, n) /\ call' = call

\* C3 (part_001): a call is answered from the cache only from an entry whose
\* age does not exceed the TTL, and a call that finds an entry older than the
\* TTL evicts it and starts a fresh aggregation.
C3_tchw(c, n) ==
    LET k == CacheKey(n)
    IN  /\ IsHit(c, n) => LiveEntry(k)
        /\ (queryTchwPrice(c, n) /\ ExpiredEntry(k)) =>
              /\ ~IsHit(c, n)
              /\ ~cache'[k].present
              /\ Len(aggs') = Len(aggs) + 1
              /\ inflight'[k] = Len(aggs')

\* A fetchPrice call answered from priceCache changes no call's position.
IsPriceHit(c, id) == fetchPrice(c, id) /\ fp' = fp

\* C3 (index.js): the same for fetchPrice and priceCache, where an entry
\* older than the TTL is left in place and the loop over the worlds starts.
C3_index(c, id) ==
    /\ IsPriceHit(c, id) =>
          (priceCache[id].present /\ now - priceCache[id].createdAt <= CACHE_TTL)
    /\ (/\ fetchPrice(c, id)
        /\ priceCache[id].present
        /\ now - priceCache[id].createdAt > CACHE_TTL) =>
          (~IsPriceHit(c, id) /\ fp'[c].pc = "loop" /\ fp'[c].i = 1)

\* C3: TTL expiry, in both programs that cache.
C3_TTLExpiry ==
    [][/\ \A c \in Callers, n \in ItemNames : C3_tchw(c, n)
       /\ \A c \in Fetchers, id \in ItemIds : C3_index(c, id)]_vars

\* C3 witness: a summary was cached, the TTL has passed, the entry has been
\* evicted by a query and an aggregation is in flight again.
C3_Witness ==
    /\ now > CACHE_TTL_MS
    /\ lastRet.how = "own" /\ lastRet.ret.kind = "value" /\ lastRet.ret.value.ok
    /\ \A k \in Keys : ~cache[k].present
    /\ \E k \in Keys : inflight[k] # NoPromise

\* C4: a call that finds a live entry returns that entry's summary tagged
\* fromCache = true and changes neither the aggregations, the in-flight map
\* nor the cache.
C4_CacheHit ==
    [][\A c \in Callers, n \in ItemNames :
          (queryTchwPrice(c, n) /\ LiveEntry(CacheKey(n))) =>
              /\ lastRet'.how = "hit"
              /\ lastRet'.ret.kind = "value"
              /\ lastRet'.ret.value = cache[CacheKey(n)].value
              /\ lastRet'.ret.fromCache
              /\ aggs' = aggs /\ inflight' = inflight /\ cache' = cache /\ call' = call]_vars

\* C4 witness: a call was answered from the cache while the entry is still there.
C4_Witness ==
    /\ lastRet.how = "hit" /\ lastRet.ret.value.ok
    /\ \E k \in Keys : LiveEntry(k) /\ cache[k].value = lastRet.ret.value

\* C5 (as claimed): every in-flight entry is eventually removed, also when the
\* upstream never answers.
C5_EventuallySettles ==
    \A k \in Keys : (inflight[k] # NoPromise) ~> (inflight[k] = NoPromise)

\* C6 (as claimed): two aggregations pending at once never fetch the market
\* for the same resolved item.
C6_SameItemOneAggregation ==
    \A a1, a2 \in 1..Len(aggs) :
        (/\ aggs[a1].phase = "fetching" /\ aggs[a2].phase = "fetching"
         /\ aggs[a1].resolved.itemId = aggs[a2].resolved.itemId) => a1 = a2

\* The call that started an aggregation finishes in this step.
StarterFinishes == lastRet' # lastRet /\ lastRet'.how = "own"

\* C7: when an aggregation throws, the cache is left as it was, its in-flight
\* entry is removed and every call that joined it is resumed with the same
\* error, which it then throws; and a call that finds neither a live entry nor
\* a pending aggregation for its key starts a fresh aggregation.
C7_FailureShared ==
    [][/\ (StarterFinishes /\ lastRet'.ret.kind = "throw") =>
            /\ cache' = cache
            /\ inflight'[aggs[lastRet'.agg].key] = NoPromise
            /\ \A c \in Callers :
                  (call[c].pc = "join" /\ call[c].agg = lastRet'.agg) =>
                      /\ call'[c].pc = "resume"
                      /\ call'[c].ret.kind = "throw"
                      /\ call'[c].ret.error = lastRet'.ret.error
       /\ \A c \in Callers :
            (call[c].pc = "resume" /\ call'[c].pc = "idle") =>
                lastRet' = Finished("join", call[c].agg, call[c].ret)
       /\ \A c \in Callers, n \in ItemNames :
            (/\ queryTchwPrice(c, n)
             /\ ~LiveEntry(CacheKey(n))
             /\ PendingFor(CacheKey(n)) = {}) =>
                /\ Len(aggs') = Len(aggs) + 1
                /\ inflight'[CacheKey(n)] = Len(aggs')
                /\ call'[c] = [pc |-> "own", agg |-> Len(aggs'), ret |-> NoReturn]]_vars

\* C7 witness: a call that joined an aggregation got its error, nothing was
\* cached, and a later call has started a fresh aggregation.
C7_Witness ==
    /\ lastRet.how = "join" /\ lastRet.ret.kind = "throw"
    /\ \A k \in Keys : ~cache[k].present
    /\ \E k \in Keys : inflight[k] > lastRet.agg

\* C8: result tags.  The starter's result has fromCache = false and no
\* sharedInflight; a joiner's has fromCache = true and sharedInflight = true;
\* a cache hit's has fromCache = true and no sharedInflight = true.
C8_Tags ==
    /\ (lastRet.how = "own" /\ lastRet.ret.kind = "value") =>
          (~lastRet.ret.fromCache /\ lastRet.ret.sharedInflight = "absent")
    /\ (lastRet.how = "join" /\ lastRet.ret.kind = "value") =>
          (lastRet.ret.fromCache /\ lastRet.ret.sharedInflight = "true")
    /\ lastRet.how = "hit" =>
          (/\ lastRet.ret.kind = "value" /\ lastRet.ret.fromCache
           /\ lastRet.ret.sharedInflight # "true")
    /\ \A c \in Callers : (call[c].pc = "resume" /\ call[c].ret.kind = "value") =>
          (call[c].ret.fromCache /\ call[c].ret.sharedInflight = "true")

\* C8 witness: a call that joined an aggregation returned its summary.
C8_Witness ==
    lastRet.how = "join" /\ lastRet.ret.kind = "value" /\ lastRet.ret.value.ok

\* C10 (as claimed): no call throws because the market endpoint failed.
C10_MarketFailureAbsorbed ==
    lastRet.ret.kind = "throw" =>
        lastRet.ret.error \notin {"market fetch failed", "market request failed"}

\* The lowest of a non-empty sequence of prices.
LowestOf(xs) ==
    CHOOSE m \in { xs[i].v : i \in 1..Len(xs) } :
        \A n \in { xs[i].v : i \in 1..Len(xs) } : m <= n

Summarised == variant = "stats" /\ arg # <<>>

\* C11: all-origins-empty.  Whenever the market body holds no listing, the
\* summary's lowest price and average price are both null, whether or not
\* the body holds recent sales, and the summary is a success (ok = true).
C11_AllOriginsEmpty ==
    (Summarised /\ arg[1].listings = <<>>) =>
        /\ res[1].ok
        /\ res[1].lowest = <<>>
        /\ res[1].avg = <<>>

\* C13: average fallback.  The average is the rounded mean of the finite
\* recent-sale prices when there is one, and otherwise (also when the history
\* is non-empty but holds no finite price) the rounded mean of the finite
\* listing prices, null only when there is none of either.
C13_AverageFallback ==
    Summarised =>
        res[1].avg = IF finiteUnits(arg[1].recentHistory) # <<>>
                     THEN meanOf(arg[1].recentHistory)
                     ELSE meanOf(arg[1].listings)

\* The listings of part_001's endpoint that carry a price, all of them.
AllPriced(ls) == \A i \in 1..Len(ls) : ls[i].pricePerUnit # <<>>

MinPrice(ls) ==
    CHOOSE m \in { ls[i].pricePerUnit[1] : i \in 1..Len(ls) } :
        \A i \in 1..Len(ls) : m <= ls[i].pricePerUnit[1]

\* The first listing, in the order received, whose price is p.
FirstAt(ls, p) ==
    CHOOSE i \in 1..Len(ls) :
        /\ ls[i].pricePerUnit = <<p>>
        /\ \A j \in 1..(i - 1) : ls[j].pricePerUnit # <<p>>

Aggregated == variant = "plain" /\ fpRet.how = "loop" /\ fpRet.kind = "value"

\* C12: average precedence in fetchPrice.  Whenever a world that answered
\* reported a recent sale, the returned average is the rounded mean of the
\* recent-sale prices of the worlds that answered; the listing prices have no
\* part in it.
C12_AveragePrecedence ==
    (Aggregated /\ fpRet.heard.sold # <<>> /\ AllNum(fpRet.heard.sold)) =>
        fpRet.result.avg =
            JsNum(RoundDiv(SumJs(fpRet.heard.sold), Len(fpRet.heard.sold)))

\* C15: most-recent-sale selection.  The reported most recent sale is that of
\* the first world (part_001: the first history entry) reporting one, and is
\* absent when there is none: it is never a listing price.
C15_MostRecentSale ==
    /\ Summarised =>
          res[1].lastSale = IF arg[1].recentHistory # <<>>
                            THEN <<arg[1].recentHistory[1]>> ELSE <<>>
    /\ (Aggregated /\ ~fpRet.result.isNull) =>
          fpRet.result.last = IF fpRet.heard.sold # <<>>
                              THEN fpRet.heard.sold[1] ELSE JsUndefined

\* C16: zero is a valid price.  A first listing at 0 gives a lowest price of
\* 0, and a most recent sale at 0 is reported as 0, not replaced by another
\* value.
C16_ZeroIsAPrice ==
    /\ (Summarised /\ arg[1].listings # <<>>
            /\ arg[1].listings[1].pricePerUnit = <<0>>) =>
          res[1].lowest = <<0>>
    /\ (Summarised /\ arg[1].recentHistory # <<>>
            /\ arg[1].recentHistory[1].pricePerUnit = <<0>>) =>
          res[1].lastSale # <<>> /\ res[1].lastSale[1].pricePerUnit = <<0>>
    /\ (Aggregated /\ ~fpRet.result.isNull
            /\ fpRet.heard.sold # <<>> /\ fpRet.heard.sold[1] = JsNum(0)) =>
          fpRet.result.last = JsNum(0)

\* The well-formed ones among the prices heard.
Numeric(xs) == SelectSeq(xs, IsNum)

\* C17: an upstream contract violation is dropped per origin.  A world whose
\* first listing carries no numeric pricePerUnit contributes nothing: the
\* call returns null when no world gave a numeric listing price, and
\* otherwise the least and the rounded mean of the numeric ones.
C17_MalformedDropped ==
    (variant \in {"plain", "part000"} /\ fpRet.how = "loop") =>
        /\ fpRet.kind = "value"
        /\ IF Numeric(fpRet.heard.listed) = <<>> THEN fpRet.result.isNull
           ELSE /\ ~fpRet.result.isNull
                /\ fpRet.result.min = JsNum(LowestOf(Numeric(fpRet.heard.listed)))
                /\ fpRet.result.avg =
                      JsNum(RoundDiv(SumJs(Numeric(fpRet.heard.listed)),
                                     Len(Numeric(fpRet.heard.listed))))

\* The latest findItems call, its normalized keyword, and the tiers of an
\* index entry with respect to it.
Resolved == variant \in FindVariants /\ arg # <<>>

SearchKey == normalizeOf(variant, arg[1].keyword)

IsExact(e) == e.key = SearchKey \/ (variant = "cached.find" /\ e.en = SearchKey)

IsPrefix(e) ==
    startsWith(e.key, SearchKey) \/ (variant = "cached.find" /\ startsWith(e.en, SearchKey))

ExactIn(index) == { i \in 1..Len(index) : IsExact(index[i]) }

LeastOf(a, b) == IF a < b THEN a ELSE b

\* C18: resolve tiers are strictly ordered.  When some entry's search key
\* equals the normalized (non-empty) keyword, findItems returns exact matches
\* only, as many of them as the limit allows, and no entry that matches
\* merely by prefix or substring.
C18_ExactOnly ==
    (Resolved /\ SearchKey # <<>> /\ ExactIn(arg[1].index) # {}) =>
        /\ \A i \in 1..Len(res[1]) : IsExact(res[1][i])
        /\ Len(res[1]) = LeastOf(arg[1].limit, Cardinality(ExactIn(arg[1].index)))

\* C18 witness: the index holds "a" and "ab", the keyword "A " normalizes to
\* "a", and only the entry "a" is returned.
C18_Witness ==
    /\ Resolved
    /\ arg[1].keyword = <<"A", " ">>
    /\ arg[1].limit = DefaultLimit
    /\ Len(arg[1].index) = 2
    /\ arg[1].index[1].key = <<"a", "b">>
    /\ arg[1].index[2].key = <<"a">>
    /\ Len(res[1]) = 1
    /\ res[1][1].id = 2

C20_Ranking ==
    (/\ Resolved /\ variant \in {"plain.find", "cached.find"}
     /\ ExactIn(arg[1].index) = {}) =>
        \A i, j \in 1..Len(res[1]) :
            i < j =>
                /\ IsPrefix(res[1][j]) => IsPrefix(res[1][i])
                /\ (IsPrefix(res[1][i]) <=> IsPrefix(res[1][j])) =>
                      Len(res[1][i].raw) <= Len(res[1][j].raw)

\* Aggregation a settles in this step.
Settles(a) == aggs[a].phase # "settled" /\ aggs'[a].phase = "settled"

\* Every key but k keeps its cache entry and its in-flight entry.
OthersKept(k) ==
    \A j \in Keys \ {k} : cache'[j] = cache[j] /\ inflight'[j] = inflight[j]

\* C25: queries for different keys are independent.  A query touches the
\* entries of its own key only, joins only the aggregation registered under
\* its own key and on a hit gets its own key's summary; a settlement touches
\* the entries of its aggregation's key only and resumes only the calls that
\* joined that aggregation.
C25_KeysIndependent ==
    [][/\ \A c \in Callers, n \in ItemNames :
            queryTchwPrice(c, n) =>
                /\ OthersKept(CacheKey(n))
                /\ IsHit(c, n) => lastRet'.ret.value = cache[CacheKey(n)].value
                /\ call'[c].pc = "join" =>
                      /\ call'[c].agg = inflight[CacheKey(n)]
                      /\ aggs[call'[c].agg].key = CacheKey(n)
                /\ call'[c].pc = "own" =>
                      /\ aggs'[call'[c].agg].key = CacheKey(n)
                      /\ inflight'[CacheKey(n)] = call'[c].agg
       /\ \A a \in 1..Len(aggs) :
            Settles(a) =>
                /\ OthersKept(aggs[a].key)
                /\ \A c \in Callers :
                      (call[c].pc = "join" /\ call'[c].pc = "resume") => call[c].agg = a]_vars

\* C25 witness: two keys were in flight together; one has settled and is
\* cached while the other is still in flight.
C25_Witness ==
    \E k1, k2 \in Keys :
        /\ k1 # k2
        /\ cache[k1].present /\ inflight[k1] = NoPromise
        /\ inflight[k2] # NoPromise /\ inflight[k2] < Len(aggs)
        /\ lastRet.how = "own" /\ lastRet.agg = Len(aggs)

\* C26: the maps change at the defined transition points only.  A cache
\* entry appears only where there was none, for the key of an aggregation
\* that succeeds in that step, and disappears only when a query for its key
\* reads it past its TTL; an in-flight entry appears only in a query for its
\* key that finds no live entry and no in-flight entry, and disappears only
\* when its aggregation settles.  A cache hit and a join change neither map.
C26_TransitionPoints ==
    [][/\ \A k \in Keys :
            /\ cache'[k] # cache[k] =>
                  \/ /\ ~cache[k].present /\ cache'[k].present
                     /\ \E a \in 1..Len(aggs), m \in MarketJsons :
                            MarketAnswers(a, "ok", m) /\ aggs[a].key = k
                  \/ /\ ExpiredEntry(k) /\ ~cache'[k].present
                     /\ \E c \in Callers, n \in ItemNames :
                            queryTchwPrice(c, n) /\ CacheKey(n) = k
            /\ inflight'[k] # inflight[k] =>
                  \/ /\ inflight[k] = NoPromise /\ ~LiveEntry(k)
                     /\ \E c \in Callers, n \in ItemNames :
                            queryTchwPrice(c, n) /\ CacheKey(n) = k
                  \/ /\ inflight[k] # NoPromise /\ inflight'[k] = NoPromise
                     /\ Settles(inflight[k])
       /\ \A c \in Callers, n \in ItemNames :
            (queryTchwPrice(c, n) /\ (IsHit(c, n) \/ call'[c].pc = "join")) =>
                (cache' = cache /\ inflight' = inflight)]_vars

\* C26 witness: after the TTL has passed a further aggregation was started,
\* a call joined it, it settled, and the call that joined has been served.
C26_Witness ==
    /\ now > CACHE_TTL_MS
    /\ Len(aggs) >= 2
    /\ lastRet.how = "join" /\ lastRet.agg = Len(aggs)

\* C28: a query whose name resolution finds no item returns ok = false with
\* reason not_found, leaves the cache without an entry for the key and
\* removes the in-flight entry; every call that joined it is resumed with
\* the same not_found object; and a query that finds neither an entry nor an
\* in-flight aggregation for its key starts resolution again.
C28_NotFound ==
    [][/\ \A a \in 1..Len(aggs) :
            ResolveAnswers(a, "ok", <<>>) =>
                /\ lastRet'.how = "own" /\ lastRet'.agg = a
                /\ lastRet'.ret.kind = "value"
                /\ ~lastRet'.ret.value.ok /\ lastRet'.ret.value.reason = "not_found"
                /\ ~cache'[aggs[a].key].present
                /\ inflight'[aggs[a].key] = NoPromise
                /\ \A c \in Callers :
                      (call[c].pc = "join" /\ call[c].agg = a) =>
                          /\ call'[c].pc = "resume"
                          /\ call'[c].ret.kind = "value"
                          /\ call'[c].ret.value = lastRet'.ret.value
       /\ \A c \in Callers, n \in ItemNames :
            (/\ queryTchwPrice(c, n)
             /\ ~cache[CacheKey(n)].present
             /\ inflight[CacheKey(n)] = NoPromise) =>
                /\ Len(aggs') = Len(aggs) + 1
                /\ aggs'[Len(aggs')].phase = "resolving"
                /\ aggs'[Len(aggs')].key = CacheKey(n)]_vars

\* C28 witness: a call that joined a query whose resolution found nothing
\* has been resumed with not_found; nothing is cached or in flight.
C28_Witness ==
    /\ lastRet.how = "join"
    /\ lastRet.ret.kind = "value" /\ lastRet.ret.value.reason = "not_found"
    /\ \A k \in Keys : ~cache[k].present /\ inflight[k] = NoPromise

\* C29: in the fetchPrice that caches, an entry is written only when a world
\* returned a listing: every entry of priceCache holds a result that is not
\* null and whose lowest price is a number.
C29_CachedHasLowest ==
    (variant = "cached") =>
        \A id \in ItemIds :
            priceCache[id].present =>
                /\ ~priceCache[id].data.isNull
                /\ IsNum(priceCache[id].data.min)

\* The latest price command of part_000's first program.
Searched == variant = "part000.search" /\ arg # <<>>

\* C21: a keyword that normalizes to the empty string (empty, or only ASCII
\* or full-width whitespace) gets no candidates, whatever the index holds:
\* from findItems of the three programs, and from the handler in front of
\* searchItems.
C21_EmptyKeyword ==
    /\ (Resolved /\ SearchKey = <<>>) => res[1] = <<>>
    /\ (Searched /\ normalize(arg[1].keyword) = <<>>) => res[1] = <<>>

\* C21 witness: a keyword of a full-width and an ASCII space, over an index
\* that holds items, got no candidate.
C21_Witness ==
    /\ Resolved
    /\ arg[1].keyword = <<IdeographicSpace, " ">>
    /\ arg[1].limit = DefaultLimit
    /\ Len(arg[1].index) >= 1
    /\ res[1] = <<>>

\* A process that went through module load, and one that survived it.
Loaded == variant \in BootVariants /\ arg # <<>>
Booted == Loaded /\ ~res[1].crashed

\* The primary-locale and the secondary-locale name a record carries, ''
\* when it carries none: name / Name, then en / zh, for the first program;
\* zh, then en, for the second.
PrimaryName(v, r) ==
    IF v = "plain.boot" THEN OrElse(r.name, OrElse(r.Name, <<>>)) ELSE OrElse(r.zh, <<>>)
SecondaryName(v, r) ==
    IF v = "plain.boot" THEN OrElse(r.en, OrElse(r.zh, <<>>)) ELSE OrElse(r.en, <<>>)

\* Manual override, else primary name, else secondary name, else ID:<id>.
PriorityName(v, r, id, ITEMS_MANUAL) ==
    OrElse(manualOf(ITEMS_MANUAL, id),
           OrElse(<<PrimaryName(v, r)>>,
                  OrElse(<<SecondaryName(v, r)>>, <<"I", "D", ":">> \o String(id))))

\* C22: every entry built from a catalog record is displayed, and indexed,
\* under the manual override if there is one, else the record's non-empty
\* primary-locale name, else its non-empty secondary-locale name, else
\* ID:<id>.
C22_DisplayPriority ==
    (Booted /\ arg[1].RAW.kind = "array") =>
        \A n \in DOMAIN res[1].index :
            LET m == res[1].index[n]
                name == PriorityName(variant, arg[1].RAW.records[n], m.id,
                                     arg[1].ITEMS_MANUAL)
            IN  /\ displayName(variant, m) = name
                /\ m.key = normalize(name)

\* A catalog that is missing, not JSON, not an array or object, or empty.
BadCatalog(RAW) ==
    \/ RAW.kind \in {"unparsable", "number", "null"}
    \/ RAW.kind = "array" /\ RAW.records = <<>>
    \/ RAW.kind = "object" /\ DOMAIN RAW.names = {}

\* C23: with an empty or malformed catalog the module load fails and the
\* process never serves a price command.
C23_CatalogFailureFatal ==
    (Loaded /\ BadCatalog(arg[1].RAW)) => (res[1].crashed /\ res[1].served = <<>>)

\* A record that is identifier-to-name data: an id, one non-empty name and
\* no English name beside it.
RecordId(r) == Coalesce(<<r.id, r.ID>>)
RecordName(r) == Coalesce(<<r.name, r.Name, r.zh>>)
NameData(records) ==
    \A n \in DOMAIN records :
        /\ RecordId(records[n]) # <<>>
        /\ RecordName(records[n]) # <<>> /\ RecordName(records[n])[1] # <<>>
        /\ records[n].en = <<>>

\* The same data written as an object from ids to names.
AsObject(records) ==
    [kind |-> "object",
     names |-> [i \in { RecordId(records[n])[1] : n \in DOMAIN records } |->
                  RecordName(records[CHOOSE n \in DOMAIN records :
                                         RecordId(records[n])[1] = i])[1]]]

Range(xs) == { xs[n] : n \in DOMAIN xs }

\* C27: an array of records and the same identifier-to-name data written
\* as an object give the same set of index entries, and findItems returns
\* the same for every keyword.
C27_FormatsAgree ==
    (Booted /\ arg[1].RAW.kind = "array" /\ NameData(arg[1].RAW.records)) =>
        LET other == boot(variant, AsObject(arg[1].RAW.records), arg[1].ITEMS_MANUAL)
        IN  /\ ~other.crashed
            /\ Range(res[1].index) = Range(other.index)
            /\ \A k \in Keywords :
                   resolve(variant, k, DefaultLimit, res[1].index)
                       = resolve(variant, k, DefaultLimit, other.index)

\* C24: a price command whose keyword has no candidate is answered "no
\* match" and one with several candidates is answered with the list, and
\* neither starts a fetch nor changes the cache or a call in progress; a
\* fetchPrice call starts only for a keyword with exactly one candidate.
C24_SingleCandidateOnly ==
    [][\A c \in Fetchers, k \in CommandKeywords :
          PriceCommand(c, k) =>
              /\ matchesOf(k) = <<>> =>
                     fpRet'.kind = "nomatch" /\ UNCHANGED <<fp, priceCache>>
              /\ Len(matchesOf(k)) > 1 =>
                     fpRet'.kind = "list" /\ UNCHANGED <<fp, priceCache>>
              /\ (fp' # fp \/ fpRet'.kind = "value") =>
                     /\ Len(matchesOf(k)) = 1
                     /\ fp'[c].pc = "loop" => fp'[c].itemId = matchesOf(k)[1].id
                     /\ fpRet'.kind = "value" => fpRet'.itemId = matchesOf(k)[1].id]_vars

\* C24 witness: the program with a cache answered a command with the list
\* while the cache held an entry.
C24_Witness ==
    /\ variant = "cached"
    /\ fpRet.kind = "list"
    /\ priceCache[R1.itemId].present

====
